---- MODULE Spec2Model ----
(***************************************************************************)
(* A model of the tools of research-agent.  The file tools                 *)
(* (src/tools/local_files.py): the path guard _resolve_path and the line   *)
(* patch engine (patch_file, preview_patch, apply_multiple_patches,        *)
(* patch_by_pattern) together with the text-mode file I/O they are built   *)
(* on.  The web and git tools: the retry loop of web_search, the paging of *)
(* fetch_html and the command check of execute_git_command.                *)
(*                                                                         *)
(* Text is a sequence of characters; CR and LF stand for "\r" and "\n",    *)
(* every other character is an ordinary one-letter string.  A path is a    *)
(* sequence of segments, a segment a sequence of characters.               *)
(***************************************************************************)
EXTENDS Integers, Sequences, FiniteSets, TLC

VARIABLES
    fs,       \* the filesystem: absolute path of every regular file |-> its bytes
    pc,       \* "idle": no call in progress; "returned": the last call has ended;
              \* otherwise the statement the call in progress is at
    call,     \* the last tool call: [op, path, patches]
    result,   \* what the last call returned or raised
    before,   \* the filesystem as it was when the last call began
    io,       \* file content reads and writes the last call performed
    web,      \* the loop state of the web_search call in progress
    stop_event, \* the agent context's stop event: "None", "clear" or "set"
    threads   \* the calls that run concurrently on the target file, each with
              \* its position, its arguments and what it has read

vars == <<fs, pc, call, result, before, io, web, stop_event, threads>>

CR == "CR"
LF == "LF"

\* ------------------------------------------------------------------ bounds

\* longest initial file content, in characters
MaxLen == 3
\* longest replacement text given to patch_file and preview_patch
MaxRepl == 2
\* largest line number given to patch_file and preview_patch
MaxLine == 4
\* longest replacement text of one patch of a batch
MaxBatchRepl == 1
\* largest line number of one patch of a batch
MaxBatchLine == 3
\* most patch slots filled in one apply_multiple_patches call
MaxPatches == 2
\* most segments in a user-supplied path
MaxSegs == 3
\* most files on disk from which a further call is explored
MaxFiles == 2
\* the longest pattern and the longest replacement given to patch_by_pattern
MaxPattern == 2
MaxPatternRepl == 1
\* the largest occurrence asked of patch_by_pattern
MaxOccurrence == 4
\* the largest page number asked of fetch_html, and the pages of its content
MaxPage == 3
\* the longest content type or exception text
MaxDetail == 10
\* the longest command given to execute_git_command
MaxCmd == 5
\* the longest file and the largest line number of the concurrent calls
MaxRaceLen == 2
MaxRaceLine == 2
\* the most lines of a file whose preview is taken
MaxDiffLines == 6
\* the longest page-range string and the most pages of a document
MaxRange == 5
MaxTotalPages == 3
\* the largest max_retries given to web_search
MaxRetries == 2

\* --------------------------------------------------------- text primitives

Strings(alphabet, n) == UNION {[1..k -> alphabet] : k \in 0..n}

Last(s) == s[Len(s)]

\* s[i:] of a Python sequence, i >= 0
Drop(s, i) == SubSeq(s, i + 1, Len(s))

\* str.startswith
StartsWith(s, prefix) ==
    /\ Len(prefix) <= Len(s)
    /\ SubSeq(s, 1, Len(prefix)) = prefix

\* str.endswith(("\n", "\r"))
EndsWithNewline(line) == line # <<>> /\ Last(line) \in {LF, CR}

\* str.endswith("\r\n")
EndsWithCRLF(line) ==
    Len(line) >= 2 /\ line[Len(line) - 1] = CR /\ Last(line) = LF

\* sub in s
RECURSIVE Contains(_, _)
Contains(s, sub) ==
    IF Len(s) < Len(sub) THEN FALSE
    ELSE StartsWith(s, sub) \/ Contains(Tail(s), sub)

\* str.replace(old, new): every non-overlapping occurrence, left to right
RECURSIVE Replace(_, _, _)
Replace(s, old, new) ==
    IF s = <<>> THEN <<>>
    ELSE IF StartsWith(s, old) THEN new \o Replace(Drop(s, Len(old)), old, new)
    ELSE <<Head(s)>> \o Replace(Tail(s), old, new)

\* str.count("\n")
RECURSIVE CountLF(_)
CountLF(s) ==
    IF s = <<>> THEN 0
    ELSE (IF Head(s) = LF THEN 1 ELSE 0) + CountLF(Tail(s))

\* str.splitlines(keepends=True): a line ends at "\r\n", "\r" or "\n"; no empty
\* last line after a final terminator
RECURSIVE SplitKeep(_, _, _)
SplitKeep(s, cur, acc) ==
    IF s = <<>> THEN (IF cur = <<>> THEN acc ELSE Append(acc, cur))
    ELSE IF StartsWith(s, <<CR, LF>>)
        THEN SplitKeep(Drop(s, 2), <<>>, Append(acc, cur \o <<CR, LF>>))
    ELSE IF Head(s) \in {CR, LF}
        THEN SplitKeep(Tail(s), <<>>, Append(acc, Append(cur, Head(s))))
    ELSE SplitKeep(Tail(s), Append(cur, Head(s)), acc)

SplitlinesKeepends(s) == SplitKeep(s, <<>>, <<>>)

\* a line of splitlines(keepends=True) without its terminator
StripTerminator(line) ==
    IF EndsWithCRLF(line) THEN SubSeq(line, 1, Len(line) - 2)
    ELSE IF EndsWithNewline(line) THEN SubSeq(line, 1, Len(line) - 1)
    ELSE line

\* str.splitlines()
Splitlines(s) ==
    LET kept == SplitlinesKeepends(s)
    IN  [i \in 1..Len(kept) |-> StripTerminator(kept[i])]

\* sep.join(lines)
RECURSIVE Join(_, _)
Join(lines, sep) ==
    IF lines = <<>> THEN <<>>
    ELSE IF Len(lines) = 1 THEN lines[1]
    ELSE lines[1] \o sep \o Join(Tail(lines), sep)

\* an index or slice bound of a Python list of length n, brought into 0..n
ClampIndex(i, n) ==
    IF i < 0 THEN (IF i + n < 0 THEN 0 ELSE i + n)
    ELSE IF i > n THEN n ELSE i

\* lines[start:stop]
Slice(lines, start, stop) ==
    LET lo == ClampIndex(start, Len(lines))
        hi == ClampIndex(stop, Len(lines))
    IN  IF hi <= lo THEN <<>> ELSE SubSeq(lines, lo + 1, hi)

\* lines[start:stop] = repl
SliceAssign(lines, start, stop, repl) ==
    LET lo == ClampIndex(start, Len(lines))
        hi0 == ClampIndex(stop, Len(lines))
        hi == IF hi0 < lo THEN lo ELSE hi0
    IN  SubSeq(lines, 1, lo) \o repl \o Drop(lines, hi)

\* lines[i] is defined (no IndexError)
IndexOk(lines, i) == -Len(lines) <= i /\ i < Len(lines)

\* lines[i], i a Python index
Index(lines, i) == IF i < 0 THEN lines[Len(lines) + i + 1] ELSE lines[i + 1]

\* ------------------------------------------------------------ text-mode I/O

\* open(..., newline=None) on reading: "\r\n" and "\r" both arrive as "\n"
RECURSIVE ReadText(_)
ReadText(raw) ==
    IF raw = <<>> THEN <<>>
    ELSE IF StartsWith(raw, <<CR, LF>>) THEN <<LF>> \o ReadText(Drop(raw, 2))
    ELSE IF Head(raw) = CR THEN <<LF>> \o ReadText(Tail(raw))
    ELSE <<Head(raw)>> \o ReadText(Tail(raw))

\* os.linesep; the model is of a POSIX platform, as its paths are
os_linesep == <<LF>>

\* open(..., newline=None) on writing: every "\n" leaves as os.linesep
WriteText(text) == Replace(text, <<LF>>, os_linesep)

\* ------------------------------------------------------------- path guard

Dot == <<".">>
DotDot == <<".", ".">>

\* BASE_DIR = pathlib.Path.cwd().resolve(): the directory /h/p
BASE_DIR == << <<"h">>, <<"p">> >>

\* pathlib drops "." segments when it parses; resolve() then removes each ".."
\* with the segment before it (".." of the root is the root).  No symbolic
\* links exist in the modelled tree.
RECURSIVE Canonical(_, _)
Canonical(segs, acc) ==
    IF segs = <<>> THEN acc
    ELSE IF Head(segs) = Dot THEN Canonical(Tail(segs), acc)
    ELSE IF Head(segs) = DotDot
        THEN Canonical(Tail(segs),
                       IF acc = <<>> THEN <<>> ELSE SubSeq(acc, 1, Len(acc) - 1))
    ELSE Canonical(Tail(segs), Append(acc, Head(segs)))

\* (BASE_DIR / path).resolve(); joining an absolute path replaces BASE_DIR
AbsPath(path) ==
    Canonical(IF path.abs THEN path.segs ELSE BASE_DIR \o path.segs, <<>>)

\* str(p) of an absolute path
RECURSIVE PathStr(_)
PathStr(p) ==
    IF p = <<>> THEN <<"/">>
    ELSE IF Len(p) = 1 THEN <<"/">> \o p[1]
    ELSE <<"/">> \o p[1] \o PathStr(Tail(p))

\* _resolve_path returns (does not raise PermissionError)
resolve_path_ok(path) == StartsWith(PathStr(AbsPath(path)), PathStr(BASE_DIR))

\* -------------------------------------------------------------- filesystem

IsPrefix(p, q) == Len(p) <= Len(q) /\ SubSeq(q, 1, Len(p)) = p

\* a directory: an ancestor of a file, or the working directory and its ancestors
IsDir(p) ==
    \/ IsPrefix(p, BASE_DIR)
    \/ \E f \in DOMAIN fs : IsPrefix(p, f) /\ p # f

\* an existence test that finds every path
Exists_Always(p) == TRUE

\* Path.exists()
Exists(p) == p \in DOMAIN fs \/ IsDir(p)

\* ----------------------------------------------------- the end of a call

NoCall == [op |-> "none", path |-> [abs |-> FALSE, segs |-> <<>>],
           slots |-> <<>>, text |-> <<>>]
NoResult == [status |-> "none", value |-> <<>>]
NoIO == [reads |-> 0, writes |-> 0]
NoWeb == [i |-> 0, sleep |-> 0, responses |-> <<>>]
NoThreads == <<>>

\* a tool call runs from an idle process to its return or its exception
Finish(op, path, slots, text, status, value, newfs, reads, writes) ==
    /\ pc = "idle"
    /\ pc' = "returned"
    /\ call' = [op |-> op, path |-> path, slots |-> slots, text |-> text]
    /\ result' = [status |-> status, value |-> value]
    /\ before' = fs
    /\ fs' = newfs
    /\ io' = [reads |-> reads, writes |-> writes]
    /\ UNCHANGED <<web, stop_event, threads>>

\* ------------------------------------------------------------- patch_file

\* line_ending = "\r\n" if "\r\n" in original_content else "\n"
LineEnding(content) == IF Contains(content, <<CR, LF>>) THEN <<CR, LF>> ELSE <<LF>>

\* lines = original_content.splitlines(keepends=True) if original_content else []
KeptLines(content) == IF content # <<>> THEN SplitlinesKeepends(content) ELSE <<>>

\* is_append = start_line == line_count + 1 and end_line == line_count + 1
IsAppend(start_line, end_line, line_count) ==
    start_line = line_count + 1 /\ end_line = line_count + 1

\* normalized = replacement.replace("\r\n", "\n").replace("\n", line_ending)
Normalized(replacement, line_ending) ==
    Replace(Replace(replacement, <<CR, LF>>, <<LF>>), <<LF>>, line_ending)

\* replacement_lines before the last one is given its terminator
SplitReplacement(content, replacement) ==
    LET normalized == Normalized(replacement, LineEnding(content))
    IN  IF normalized # <<>> THEN SplitlinesKeepends(normalized) ELSE <<>>

\* the last replacement line is to be given a terminator taken from
\* lines[end_line - 1]
ReadsEndLine(content, start_line, end_line, replacement) ==
    LET repl == SplitReplacement(content, replacement)
        line_count == Len(KeptLines(content))
    IN  /\ repl # <<>>
        /\ ~EndsWithNewline(Last(repl))
        /\ ~IsAppend(start_line, end_line, line_count)
        /\ end_line <= line_count

\* lines[end_line - 1] raises IndexError
PatchIndexError(content, start_line, end_line, replacement) ==
    /\ ReadsEndLine(content, start_line, end_line, replacement)
    /\ ~IndexOk(KeptLines(content), end_line - 1)

\* replacement_lines, the last one with its terminator
ReplacementLines(content, start_line, end_line, replacement) ==
    LET repl == SplitReplacement(content, replacement)
        lines == KeptLines(content)
        line_count == Len(lines)
        ending ==
            IF IsAppend(start_line, end_line, line_count) THEN LineEnding(content)
            ELSE IF end_line <= line_count
                THEN (IF EndsWithCRLF(Index(lines, end_line - 1))
                      THEN <<CR, LF>> ELSE <<LF>>)
            ELSE LineEnding(content)
    IN  IF repl # <<>> /\ ~EndsWithNewline(Last(repl))
        THEN [repl EXCEPT ![Len(repl)] = @ \o ending]
        ELSE repl

\* modified_content
PatchedContent(content, start_line, end_line, replacement) ==
    LET lines == KeptLines(content)
        line_count == Len(lines)
        closed ==
            IF /\ IsAppend(start_line, end_line, line_count)
               /\ lines # <<>>
               /\ ~EndsWithNewline(Last(lines))
            THEN [lines EXCEPT ![line_count] = @ \o LineEnding(content)]
            ELSE lines
        patched == SliceAssign(closed, start_line - 1, end_line,
                       ReplacementLines(content, start_line, end_line, replacement))
    IN  Join(patched, <<>>)

\* the summary patch_file returns
PatchSummary(start_line, end_line, replacement, modified_content) ==
    [lines_removed |-> end_line - start_line + 1,
     lines_added |-> Len(Splitlines(replacement)),
     current_line_count |-> Len(Splitlines(modified_content))]

Patch(start_line, end_line, replacement) ==
    [start_line |-> start_line, end_line |-> end_line, replacement |-> replacement]

patch_file(path, start_line, end_line, replacement) ==
    LET abs_path == AbsPath(path)
        slots == << {Patch(start_line, end_line, replacement)} >>
        Raise(status, reads) ==
            Finish("patch_file", path, slots, <<>>, status, <<>>, fs, reads, 0)
    IN  IF ~resolve_path_ok(path) THEN Raise("PermissionError", 0)
        ELSE IF ~Exists(abs_path) THEN Raise("FileNotFoundError", 0)
        ELSE IF abs_path \notin DOMAIN fs THEN Raise("IsADirectoryError", 0)
        ELSE LET original_content == ReadText(fs[abs_path])
                 modified_content ==
                     PatchedContent(original_content, start_line, end_line, replacement)
             IN  IF PatchIndexError(original_content, start_line, end_line, replacement)
                 THEN Raise("IndexError", 1)
                 ELSE Finish("patch_file", path, slots, <<>>, "complete",
                          PatchSummary(start_line, end_line, replacement,
                                       modified_content),
                          [fs EXCEPT ![abs_path] = WriteText(modified_content)],
                          1, 1)

\* ----------------------------------------------------------- preview_patch

\* lines = original_content.splitlines() if original_content else []
PreviewLines(content) == IF content # <<>> THEN Splitlines(content) ELSE <<>>

\* the range checks without the one against the file's length
PreviewValueError_NoLengthCheck(content, start_line, end_line) ==
    \/ start_line < 1 \/ end_line < 1
    \/ start_line > end_line

\* the range checks of preview_patch raise ValueError
PreviewValueError(content, start_line, end_line) ==
    LET line_count == Len(PreviewLines(content))
    IN  \/ start_line < 1 \/ end_line < 1
        \/ start_line > end_line
        \/ ~IsAppend(start_line, end_line, line_count) /\ end_line > line_count

\* original_lines = lines[start_line - 1 : end_line] if not is_append else []
OriginalLines(content, start_line, end_line) ==
    LET lines == PreviewLines(content)
    IN  IF ~IsAppend(start_line, end_line, Len(lines))
        THEN Slice(lines, start_line - 1, end_line) ELSE <<>>

DiffLine(tag, num, text) == [tag |-> tag, num |-> num, text |-> text]

\* the context before without the lower limit at line 1
ContextBefore_Unlimited(start_line) == (start_line - 3) .. (start_line - 1)

\* the 1-based numbers of the lines shown as context before and after
ContextBefore(start_line) ==
    LET m == IF start_line - 3 > 1 THEN start_line - 3 ELSE 1
    IN  m .. (start_line - 1)
ContextAfter(content, start_line, end_line) ==
    LET line_count == Len(PreviewLines(content))
        m == IF end_line + 3 < line_count THEN end_line + 3 ELSE line_count
    IN  IF m > end_line /\ ~IsAppend(start_line, end_line, line_count)
        THEN (end_line + 1) .. m ELSE {}

\* a context line lines[i-1] does not exist (IndexError)
PreviewIndexError(content, start_line, end_line) ==
    \E i \in ContextBefore(start_line) \cup ContextAfter(content, start_line, end_line) :
        ~IndexOk(PreviewLines(content), i - 1)

\* the numbers of a finite set of integers in ascending order
RECURSIVE Ascending(_)
Ascending(S) ==
    IF S = {} THEN <<>>
    ELSE LET m == CHOOSE x \in S : \A y \in S : x <= y
         IN  <<m>> \o Ascending(S \ {m})

\* diff, one entry per listed line
Diff(content, start_line, end_line, replacement) ==
    LET lines == PreviewLines(content)
        original_lines == OriginalLines(content, start_line, end_line)
        replacement_lines == Splitlines(replacement)
        cb == Ascending(ContextBefore(start_line))
        ca == Ascending(ContextAfter(content, start_line, end_line))
    IN  [k \in 1..Len(cb) |-> DiffLine("before", cb[k], Index(lines, cb[k] - 1))]
        \o [k \in 1..Len(original_lines) |->
                DiffLine("remove", start_line + k - 1, original_lines[k])]
        \o [k \in 1..Len(replacement_lines) |->
                DiffLine("add", start_line + k - 1, replacement_lines[k])]
        \o [k \in 1..Len(ca) |-> DiffLine("after", ca[k], Index(lines, ca[k] - 1))]

\* the dictionary preview_patch returns
Preview(content, start_line, end_line, replacement) ==
    LET original_lines == OriginalLines(content, start_line, end_line)
        replacement_lines == Splitlines(replacement)
        line_count == Len(PreviewLines(content))
    IN  [original_lines |-> original_lines,
         replacement_lines |-> replacement_lines,
         line_count_before |-> line_count,
         line_count_after |-> line_count - Len(original_lines) + Len(replacement_lines),
         diff |-> Diff(content, start_line, end_line, replacement)]

\* how a preview_patch call ends: the exception it raises, or "complete"
PreviewStatus(path, start_line, end_line) ==
    LET abs_path == AbsPath(path)
    IN  IF ~resolve_path_ok(path) THEN "PermissionError"
        ELSE IF ~Exists(abs_path) THEN "FileNotFoundError"
        ELSE IF abs_path \notin DOMAIN fs THEN "IsADirectoryError"
        ELSE IF PreviewValueError(ReadText(fs[abs_path]), start_line, end_line)
            THEN "ValueError"
        ELSE IF PreviewIndexError(ReadText(fs[abs_path]), start_line, end_line)
            THEN "IndexError"
        ELSE "complete"

\* whether a preview_patch call gets as far as read_text
PreviewReads(path) ==
    resolve_path_ok(path) /\ AbsPath(path) \in DOMAIN fs

\* a preview that goes on to apply the patch it shows
PreviewFiles_Applied(path, start_line, end_line, replacement) ==
    IF PreviewStatus(path, start_line, end_line) = "complete"
    THEN [fs EXCEPT ![AbsPath(path)] =
             WriteText(PatchedContent(ReadText(fs[AbsPath(path)]), start_line,
                                      end_line, replacement))]
    ELSE fs

\* the files after a preview_patch call: the function opens nothing for writing
PreviewFiles(path, start_line, end_line, replacement) == fs

preview_patch(path, start_line, end_line, replacement) ==
    LET status == PreviewStatus(path, start_line, end_line)
    IN  Finish("preview_patch", path,
               << {Patch(start_line, end_line, replacement)} >>, <<>>, status,
               IF status = "complete"
               THEN Preview(ReadText(fs[AbsPath(path)]), start_line, end_line,
                            replacement)
               ELSE <<>>,
               PreviewFiles(path, start_line, end_line, replacement),
               IF PreviewReads(path) THEN 1 ELSE 0, 0)

\* -------------------------------------------------- apply_multiple_patches

\* a slot is {} when one of patchN_start_line, patchN_end_line and
\* patchN_replacement is None, and else holds the patch make_patch builds

\* patches: the complete patches, in slot order
RECURSIVE GivenPatches(_)
GivenPatches(slots) ==
    IF slots = <<>> THEN <<>>
    ELSE (IF Head(slots) = {} THEN <<>> ELSE <<CHOOSE p \in Head(slots) : TRUE>>)
         \o GivenPatches(Tail(slots))

\* sorted(..., key=start_line, reverse=True) is stable: a patch goes behind
\* every earlier patch whose start_line is not smaller
RECURSIVE InsertDescending(_, _)
InsertDescending(p, sorted) ==
    IF sorted = <<>> THEN <<p>>
    ELSE IF Head(sorted).start_line < p.start_line THEN <<p>> \o sorted
    ELSE <<Head(sorted)>> \o InsertDescending(p, Tail(sorted))

RECURSIVE SortDescending(_, _)
SortDescending(patches, sorted) ==
    IF patches = <<>> THEN sorted
    ELSE SortDescending(Tail(patches), InsertDescending(Head(patches), sorted))

\* the patches applied in the order the call gives them
Unsorted(patches) == patches

sorted_patches(patches) == SortDescending(patches, <<>>)

\* the first preview_patch of the validation loop that raises, or "complete"
RECURSIVE ValidationStatus(_, _)
ValidationStatus(path, sorted) ==
    IF sorted = <<>> THEN "complete"
    ELSE LET status == PreviewStatus(path, Head(sorted).start_line,
                                     Head(sorted).end_line)
         IN  IF status # "complete" THEN status
             ELSE ValidationStatus(path, Tail(sorted))

\* how many preview_patch calls of the validation loop read the file
RECURSIVE ValidationReads(_, _)
ValidationReads(path, sorted) ==
    IF sorted = <<>> \/ ~PreviewReads(path) THEN 0
    ELSE IF PreviewStatus(path, Head(sorted).start_line, Head(sorted).end_line)
            # "complete"
        THEN 1
    ELSE 1 + ValidationReads(path, Tail(sorted))

\* the splice loop: lines[start_line - 1 : end_line] = replacement.splitlines()
RECURSIVE Spliced(_, _)
Spliced(lines, sorted) ==
    IF sorted = <<>> THEN lines
    ELSE Spliced(SliceAssign(lines, Head(sorted).start_line - 1,
                             Head(sorted).end_line,
                             Splitlines(Head(sorted).replacement)),
                 Tail(sorted))

\* final_content = "\n".join(lines)
FinalContent(content, sorted) == Join(Spliced(Splitlines(content), sorted), <<LF>>)

\* results, one entry per patch in the order applied
PatchResults(sorted) ==
    [i \in 1..Len(sorted) |->
        [patch_index |-> i,
         start_line |-> sorted[i].start_line,
         end_line |-> sorted[i].end_line,
         lines_removed |-> sorted[i].end_line - sorted[i].start_line + 1,
         lines_added |-> Len(Splitlines(sorted[i].replacement))]]

apply_multiple_patches(path, slots) ==
    LET patches == GivenPatches(slots)
        abs_path == AbsPath(path)
        sorted == sorted_patches(patches)
        status == ValidationStatus(path, sorted)
        Raise(exception, reads) ==
            Finish("apply_multiple_patches", path, slots, <<>>, exception, <<>>,
                   fs, reads, 0)
    IN  IF patches = <<>> THEN Raise("no-op", 0)
        ELSE IF ~resolve_path_ok(path) THEN Raise("PermissionError", 0)
        ELSE IF ~Exists(abs_path) THEN Raise("FileNotFoundError", 0)
        ELSE IF status # "complete" THEN Raise(status, ValidationReads(path, sorted))
        ELSE LET original_content == ReadText(fs[abs_path])
                 final_content == FinalContent(original_content, sorted)
             IN  Finish("apply_multiple_patches", path, slots, <<>>, "complete",
                        [patches |-> PatchResults(sorted),
                         lines_before |-> CountLF(original_content) + 1,
                         lines_after |-> CountLF(final_content) + 1],
                        [fs EXCEPT ![abs_path] = WriteText(final_content)],
                        Len(sorted) + 1, 1)

\* -------------------------------------------------------------- write_file

\* the file is an entry of a regular file: mkdir of its parent fails
UnderFile(p) == \E f \in DOMAIN fs : IsPrefix(f, p) /\ f # p

\* the parent of the path is itself a regular file
ParentIsFile(p) == p # <<>> /\ SubSeq(p, 1, Len(p) - 1) \in DOMAIN fs

\* a write_file that does not test its path for emptiness
IsEmptyPath_Never(path) == FALSE

\* not path: the path argument is the empty string
IsEmptyPath(path) == ~path.abs /\ path.segs = <<>>

write_file(path, content) ==
    LET abs_path == AbsPath(path)
        Raise(exception) ==
            Finish("write_file", path, <<>>, content, exception, <<>>, fs, 0, 0)
    IN  IF IsEmptyPath(path) THEN Raise("ValueError")
        ELSE IF ~resolve_path_ok(path) THEN Raise("PermissionError")
        ELSE IF ParentIsFile(abs_path) THEN Raise("FileExistsError")
        ELSE IF UnderFile(abs_path) THEN Raise("NotADirectoryError")
        ELSE IF IsDir(abs_path) THEN Raise("IsADirectoryError")
        ELSE Finish("write_file", path, <<>>, content, "complete", <<>>,
                    [p \in DOMAIN fs \cup {abs_path} |->
                        IF p = abs_path THEN WriteText(content) ELSE fs[p]],
                    0, 1)

\* ---------------------------------------------------------------- list_dir

\* the entries abs_path.glob("*") yields
Children(dir) ==
    {SubSeq(f, 1, Len(dir) + 1) : f \in {g \in DOMAIN fs : IsPrefix(dir, g) /\ g # dir}}

list_dir(path) ==
    LET abs_path == AbsPath(path)
    IN  IF ~resolve_path_ok(path)
        THEN Finish("list_dir", path, <<>>, <<>>, "PermissionError", <<>>, fs, 0, 0)
        ELSE Finish("list_dir", path, <<>>, <<>>, "complete",
                    {[path |-> c,
                      type |-> IF c \in DOMAIN fs THEN "file" ELSE "dir",
                      size |-> IF c \in DOMAIN fs THEN Len(fs[c]) ELSE 0] :
                        c \in Children(abs_path)},
                    fs, IF IsDir(abs_path) THEN 1 ELSE 0, 0)

\* ------------------------------------------------------- show_line_numbers

\* end_line is {} for None and {n} for the number n
show_line_numbers(path, start_line, end_line) ==
    LET abs_path == AbsPath(path)
        Raise(exception, reads) ==
            Finish("show_line_numbers", path, <<>>, <<>>, exception, <<>>, fs, reads, 0)
    IN  IF ~resolve_path_ok(path) THEN Raise("PermissionError", 0)
        ELSE IF ~Exists(abs_path) THEN Raise("FileNotFoundError", 0)
        ELSE IF abs_path \notin DOMAIN fs THEN Raise("IsADirectoryError", 0)
        ELSE LET lines == Splitlines(ReadText(fs[abs_path]))
                 line_count == Len(lines)
                 given == IF end_line = {} THEN line_count
                          ELSE CHOOSE n \in end_line : TRUE
                 last == IF given > line_count THEN line_count ELSE given
                 shown == Ascending({i \in 0..(line_count - 1) :
                                        start_line - 1 <= i /\ i < last})
             IN  IF start_line < 1 THEN Raise("ValueError", 1)
                 ELSE Finish("show_line_numbers", path, <<>>, <<>>, "complete",
                             [formatted_content |->
                                 [k \in 1..Len(shown) |->
                                     <<shown[k] + 1, lines[shown[k] + 1]>>],
                              line_count |-> line_count,
                              displayed_lines |-> Len(shown)],
                             fs, 1, 0)

\* -------------------------------------------------------- patch_by_pattern

\* re.finditer(pattern, content) for a pattern without metacharacters: the
\* occurrences from left to right, none overlapping another; the empty pattern
\* matches once at every position
RECURSIVE FindIter(_, _, _)
FindIter(pattern, content, pos) ==
    IF pos > Len(content) THEN <<>>
    ELSE IF StartsWith(Drop(content, pos), pattern)
        THEN <<[start |-> pos, end |-> pos + Len(pattern)]>>
             \o FindIter(pattern, content,
                         IF pattern = <<>> THEN pos + 1 ELSE pos + Len(pattern))
    ELSE FindIter(pattern, content, pos + 1)

\* the occurrence check without its lower bound
InvalidOccurrence_NoLowerBound(occurrence, matches) == occurrence > Len(matches)

\* if occurrence < 1 or occurrence > len(matches)
InvalidOccurrence(occurrence, matches) ==
    occurrence < 1 \/ occurrence > Len(matches)

patch_by_pattern(path, pattern, replacement, occurrence) ==
    LET abs_path == AbsPath(path)
        args == << {[pattern |-> pattern, replacement |-> replacement,
                     occurrence |-> occurrence]} >>
        End(status, value, newfs, reads, writes) ==
            Finish("patch_by_pattern", path, args, <<>>, status, value, newfs,
                   reads, writes)
    IN  IF ~resolve_path_ok(path) THEN End("PermissionError", <<>>, fs, 0, 0)
        ELSE IF ~Exists(abs_path) THEN End("FileNotFoundError", <<>>, fs, 0, 0)
        ELSE IF abs_path \notin DOMAIN fs THEN End("IsADirectoryError", <<>>, fs, 0, 0)
        ELSE LET original_content == ReadText(fs[abs_path])
                 matches == FindIter(pattern, original_content, 0)
             IN  IF matches = <<>>
                 THEN End("error", [message |-> "not found"], fs, 1, 0)
                 ELSE IF InvalidOccurrence(occurrence, matches)
                 THEN End("error", [message |-> "invalid occurrence"], fs, 1, 0)
                 ELSE LET match == Index(matches, occurrence - 1)
                          lines_span ==
                              CountLF(SubSeq(original_content, match.start + 1,
                                             match.end))
                          modified_content ==
                              SubSeq(original_content, 1, match.start)
                              \o replacement
                              \o Drop(original_content, match.end)
                      IN  End("complete",
                              [lines_removed |-> lines_span + 1,
                               lines_added |-> Len(Splitlines(replacement)),
                               current_line_count |-> CountLF(modified_content) + 1],
                              [fs EXCEPT ![abs_path] = WriteText(modified_content)],
                              1, 1)

\* ------------------------------------------------------------------ inputs

FileChars == {"a", CR, LF}
ReplChars == {"x", CR, LF}
BatchReplChars == {"x", LF}

Contents == Strings(FileChars, MaxLen)
Replacements == Strings(ReplChars, MaxRepl)
LineNumbers == 0 .. MaxLine

\* patterns without metacharacters; the text a call reads never holds "\r"
PatternChars == {"a", LF}
Patterns == Strings(PatternChars, MaxPattern)
PatternReplacements == Strings(ReplChars, MaxPatternRepl)
Occurrences == 0 .. MaxOccurrence

BatchPatches ==
    {Patch(s, e, r) : s \in 0..MaxBatchLine, e \in 0..MaxBatchLine,
                      r \in Strings(BatchReplChars, MaxBatchRepl)}
BatchSlots == [1..MaxPatches -> {{}} \cup {{p} : p \in BatchPatches}]

\* the file the patch tools are pointed at: "f" in the working directory
TargetPath == [abs |-> FALSE, segs |-> << <<"f">> >>]
Target == AbsPath(TargetPath)

NoFiles == [p \in {} |-> <<>>]

\* ---------------------------------------------------------- specifications

InitCall ==
    /\ pc = "idle"
    /\ call = NoCall
    /\ result = NoResult
    /\ before = fs
    /\ io = NoIO
    /\ web = NoWeb
    /\ threads = NoThreads

\* the caller takes the result; the next call starts from the files as they are
Return ==
    /\ pc = "returned"
    /\ \A p \in DOMAIN fs : Len(fs[p]) <= MaxLen
    /\ pc' = "idle"
    /\ call' = NoCall
    /\ result' = NoResult
    /\ before' = fs
    /\ io' = NoIO
    /\ web' = NoWeb
    /\ UNCHANGED <<fs, stop_event, threads>>

\* a file in the sibling directory /h/pe, whose name starts with the working
\* directory's, and the relative path that leads to it
Sibling == << <<"h">>, <<"p", "e">>, <<"f">> >>
SiblingPath == [abs |-> FALSE, segs |-> <<DotDot, <<"p", "e">>, <<"f">> >>]

\* one text file, or none, in the working directory, beside the sibling's file
InitBesideSibling ==
    /\ fs \in {(Sibling :> <<"a", LF>>) @@ f :
                  f \in {NoFiles} \cup {Target :> c : c \in Contents}}
    /\ stop_event = "None"
    /\ InitCall

\* one text file, or none, in the working directory
InitOneFile ==
    /\ fs \in {NoFiles} \cup {Target :> c : c \in Contents}
    /\ stop_event = "None"
    /\ InitCall

PatchFile ==
    /\ pc = "idle"
    /\ \E s \in LineNumbers, e \in LineNumbers, r \in Replacements :
           patch_file(TargetPath, s, e, r)

\* a preview of the target file, or of the file in the sibling directory that
\* the path guard lets through
PreviewPatch ==
    /\ pc = "idle"
    /\ \E path \in {TargetPath, SiblingPath},
          s \in LineNumbers, e \in LineNumbers, r \in Replacements :
           preview_patch(path, s, e, r)

ApplyMultiplePatches ==
    /\ pc = "idle"
    /\ \E slots \in BatchSlots : apply_multiple_patches(TargetPath, slots)

PatchByPattern ==
    /\ pc = "idle"
    /\ \E pattern \in Patterns, r \in PatternReplacements, occurrence \in Occurrences :
           patch_by_pattern(TargetPath, pattern, r, occurrence)

\* single-range patching of one file
NextPatch == PatchFile \/ Return
SpecPatch == InitOneFile /\ [][NextPatch]_vars

\* previews of single-range patches, with a second file on disk
NextPreview == PreviewPatch \/ Return
SpecPreview == InitBesideSibling /\ [][NextPreview]_vars

\* multi-patch batches on one file
NextBatch == ApplyMultiplePatches \/ Return
SpecBatch == InitOneFile /\ [][NextBatch]_vars

\* pattern replacements in one file, the patterns without metacharacters
NextPattern == PatchByPattern \/ Return
SpecPattern == InitOneFile /\ [][NextPattern]_vars

\* the path guard under every tool: a file in the working directory and one in
\* its sibling directory
SegNames == {Dot, DotDot, <<"h">>, <<"p">>, <<"p", "e">>, <<"f">>}
UserPaths == {[abs |-> a, segs |-> sg] : a \in BOOLEAN, sg \in Strings(SegNames, MaxSegs)}

InitTwoFiles ==
    /\ fs = (Target :> <<"a", LF>>) @@ (Sibling :> <<"b", LF>>)
    /\ stop_event = "None"
    /\ InitCall

WriteFileAt ==
    /\ pc = "idle"
    /\ \E path \in UserPaths : write_file(path, <<"x">>)

ListDirAt ==
    /\ pc = "idle"
    /\ \E path \in UserPaths : list_dir(path)

ShowLineNumbersAt ==
    /\ pc = "idle"
    /\ \E path \in UserPaths : show_line_numbers(path, 1, {})

PatchFileAt ==
    /\ pc = "idle"
    /\ \E path \in UserPaths : patch_file(path, 1, 1, <<"x">>)

PreviewPatchAt ==
    /\ pc = "idle"
    /\ \E path \in UserPaths : preview_patch(path, 1, 1, <<"x">>)

PatchByPatternAt ==
    /\ pc = "idle"
    /\ \E path \in UserPaths : patch_by_pattern(path, <<LF>>, <<"x">>, 1)

ApplyMultiplePatchesAt ==
    /\ pc = "idle"
    /\ \E path \in UserPaths :
           apply_multiple_patches(path, << {Patch(1, 1, <<"x">>)} >>)

\* the caller takes the result of a call that created no file
ReturnAt == Return /\ Cardinality(DOMAIN fs) <= MaxFiles

NextPath ==
    \/ WriteFileAt \/ ListDirAt \/ ShowLineNumbersAt \/ PatchFileAt
    \/ PreviewPatchAt \/ PatchByPatternAt \/ ApplyMultiplePatchesAt \/ ReturnAt
SpecPath == InitTwoFiles /\ [][NextPath]_vars

\* -------------------------------------------------------------- web_search

\* sleep_for = 1 second, polled with time.sleep(0.1): ten polls at most
SleepTicks == 10

\* a loop that allows one attempt too many
RetryLimit_OneMore(max_retries) == 2 + max_retries

\* for i in range(1 + max_retries)
RetryLimit(max_retries) == 1 + max_retries

\* what requests.get brings back: HTTP 429, another HTTP error status, a
\* success, or no response at all (requests raises)
Responses == {"429", "error", "ok", "exception"}

\* stop_event and stop_event.is_set(), at the head of the loop
is_set == stop_event = "set"

\* a sleep loop that does not look at the stop event
poll_is_set_Never == FALSE

\* stop_event and stop_event.is_set(), in the sleep loop
poll_is_set == stop_event = "set"

\* the call ends: it returns, or raises the exception named by status
WebEnd(status) ==
    /\ pc' = "returned"
    /\ result' = [status |-> status, value |-> <<>>]

\* web_search(query, max_results, max_retries) up to the loop: the checks of
\* the query and of the API key
WebSearchCall(query, api_key, max_retries) ==
    /\ pc = "idle"
    /\ call' = [op |-> "web_search", query |-> query, api_key |-> api_key,
                max_retries |-> max_retries]
    /\ before' = fs
    /\ io' = NoIO
    /\ web' = NoWeb
    /\ IF query = <<>> \/ ~api_key
       THEN WebEnd("ValueError")
       ELSE pc' = "for" /\ result' = NoResult
    /\ UNCHANGED <<fs, stop_event, threads>>

\* the head of the loop: the next i, the stop event, the start of the sleep
WebFor ==
    /\ pc = "for"
    /\ IF web.i >= RetryLimit(call.max_retries)
       THEN WebEnd("MaxRetriesReached") /\ UNCHANGED web
       ELSE IF is_set
       THEN WebEnd("RuntimeError") /\ UNCHANGED web
       ELSE IF web.i > 0
       THEN /\ pc' = "sleep"
            /\ \E ticks \in 0..SleepTicks : web' = [web EXCEPT !.sleep = ticks]
            /\ UNCHANGED result
       ELSE pc' = "get" /\ UNCHANGED <<web, result>>
    /\ UNCHANGED <<fs, call, before, io, stop_event, threads>>

\* while time.monotonic() < sleep_till: one poll of the stop event and one
\* time.sleep(0.1), which lets a tenth of a second pass, or more
WebSleep ==
    /\ pc = "sleep"
    /\ IF web.sleep = 0
       THEN pc' = "get" /\ UNCHANGED <<web, result>>
       ELSE IF poll_is_set
       THEN WebEnd("RuntimeError") /\ UNCHANGED web
       ELSE /\ \E ticks \in 0..(web.sleep - 1) : web' = [web EXCEPT !.sleep = ticks]
            /\ UNCHANGED <<pc, result>>
    /\ UNCHANGED <<fs, call, before, io, stop_event, threads>>

\* requests.get and what follows from the response
WebGet ==
    /\ pc = "get"
    /\ \E response \in Responses :
        /\ web' = [web EXCEPT !.responses = Append(@, response),
                              !.i = IF response = "429" THEN @ + 1 ELSE @]
        /\ CASE response = "429" -> pc' = "for" /\ UNCHANGED result
             [] response = "error" -> WebEnd("HTTPError")
             [] response = "ok" -> WebEnd("complete")
             [] response = "exception" -> WebEnd("RequestException")
    /\ UNCHANGED <<fs, call, before, io, stop_event, threads>>

\* another thread of the agent sets the stop event
SetStop ==
    /\ stop_event = "clear"
    /\ stop_event' = "set"
    /\ UNCHANGED <<fs, pc, call, result, before, io, web, threads>>

Queries == {<<>>, <<"q">>}
RetryCounts == -1 .. MaxRetries

WebSearch ==
    \E query \in Queries, api_key \in BOOLEAN, max_retries \in RetryCounts :
        WebSearchCall(query, api_key, max_retries)

\* the steps of the thread that runs web_search
WebStep == WebFor \/ WebSleep \/ WebGet

InitWeb ==
    /\ fs = NoFiles
    /\ stop_event \in {"None", "clear", "set"}
    /\ InitCall

NextWeb == WebSearch \/ WebFor \/ WebSleep \/ WebGet \/ SetStop \/ Return
SpecWeb == InitWeb /\ [][NextWeb]_vars
\* the thread that runs web_search is scheduled as long as it has a step
SpecWebFair == SpecWeb /\ WF_vars(WebStep)

\* -------------------------------------------------------------- fetch_html

\* Strings of fetch_html are modelled by their lengths.

\* 10_000, the length of a page of content
PageSize == 10000

\* len(str(n))
DecimalLen(n) ==
    IF n < 0 THEN (IF n > -10 THEN 2 ELSE IF n > -100 THEN 3 ELSE 4)
    ELSE IF n < 10 THEN 1 ELSE IF n < 100 THEN 2 ELSE 3

\* len(f"\n\n[... truncated, next page: {page + 1} ...]")
TruncationNote(page) == 29 + DecimalLen(page + 1) + 5

\* len(content[start:stop]) for a content of n characters
SliceLen(n, start, stop) ==
    LET lo == ClampIndex(start, n)
        hi == ClampIndex(stop, n)
    IN  IF hi <= lo THEN 0 ELSE hi - lo

\* the length of what fetch_html returns for a converted content
PagedLen(content_len, page) ==
    IF content_len <= PageSize THEN content_len
    ELSE LET start_pos == (page - 1) * PageSize
         IN  SliceLen(content_len, start_pos, start_pos + PageSize)
                 + TruncationNote(page)

\* the length of the returned string, by what the request gave
FetchedLen(response, content_len, detail_len, page) ==
    CASE response = "unsupported" -> 33 + detail_len + 29
      [] response = "binary" -> 84
      [] response = "not_html" -> 75
      [] response = "exception" -> 34 + detail_len
      [] response = "html" -> PagedLen(content_len, page)

\* fetch_html(url, page, format); the response, the length of the content
\* (the markdown for "md", the page text for "html") and the length of the
\* content type or of the exception text are what the network gives
fetch_html(page, format, response, content_len, detail_len) ==
    /\ pc = "idle"
    /\ pc' = "returned"
    /\ call' = [op |-> "fetch_html", page |-> page, format |-> format,
                response |-> response, content_len |-> content_len,
                detail_len |-> detail_len]
    /\ result' = [status |-> "complete",
                  value |-> FetchedLen(response, content_len, detail_len, page)]
    /\ before' = fs
    /\ io' = NoIO
    /\ UNCHANGED <<fs, web, stop_event, threads>>

Pages == 0 .. MaxPage
Formats == {"md", "html"}
ContentLens == {k * PageSize + d : k \in 0..MaxPage, d \in -1..1} \ {-1}
DetailLens == {0, MaxDetail}
FetchResponses == {"unsupported", "binary", "not_html", "exception", "html"}

FetchHtml ==
    /\ pc = "idle"
    /\ \E page \in Pages, format \in Formats, response \in FetchResponses :
           \/ /\ response = "html"
              /\ \E content_len \in ContentLens :
                     fetch_html(page, format, response, content_len, 0)
           \/ /\ response \in {"unsupported", "exception"}
              /\ \E detail_len \in DetailLens :
                     fetch_html(page, format, response, 0, detail_len)
           \/ /\ response \in {"binary", "not_html"}
              /\ fetch_html(page, format, response, 0, 0)

InitFetch ==
    /\ fs = NoFiles
    /\ stop_event = "None"
    /\ InitCall

NextFetch == FetchHtml \/ Return
SpecFetch == InitFetch /\ [][NextFetch]_vars

\* ----------------------------------------------------- execute_git_command

\* the characters shlex treats specially: whitespace, the two quotes and the
\* escape
SP == " "
SQ == "'"
DQ == "\""
BS == "\\"

\* the state of a shlex lexer: state is "ws" (between tokens), "a" (in a
\* token), a quote (inside it) or BS (after an escape)
ShlexStart == [state |-> "ws", escapedstate |-> "a", token |-> <<>>,
               quoted |-> FALSE, parts |-> <<>>]

\* shlex.read_token at the end of the input
ShlexEnd(m) ==
    CASE m.state \in {SQ, DQ} -> [ok |-> FALSE, parts |-> <<>>]
      [] m.state = BS -> [ok |-> FALSE, parts |-> <<>>]
      [] m.state = "a" ->
           [ok |-> TRUE,
            parts |-> IF m.token # <<>> \/ m.quoted
                      THEN Append(m.parts, m.token) ELSE m.parts]
      [] m.state = "ws" -> [ok |-> TRUE, parts |-> m.parts]

\* shlex.read_token on one character (posix, whitespace_split, no commenters)
ShlexChar(m, c) ==
    CASE m.state = "ws" ->
           IF c = SP THEN m
           ELSE IF c = BS THEN [m EXCEPT !.escapedstate = "a", !.state = BS]
           ELSE IF c \in {SQ, DQ} THEN [m EXCEPT !.state = c]
           ELSE [m EXCEPT !.token = <<c>>, !.state = "a"]
      [] m.state \in {SQ, DQ} ->
           IF c = m.state THEN [m EXCEPT !.quoted = TRUE, !.state = "a"]
           ELSE IF c = BS /\ m.state = DQ
                THEN [m EXCEPT !.quoted = TRUE, !.escapedstate = m.state,
                               !.state = BS]
           ELSE [m EXCEPT !.quoted = TRUE, !.token = Append(m.token, c)]
      [] m.state = BS ->
           LET kept == IF m.escapedstate \in {SQ, DQ} /\ c # BS
                          /\ c # m.escapedstate
                       THEN Append(m.token, BS) ELSE m.token
           IN  [m EXCEPT !.token = Append(kept, c), !.state = m.escapedstate]
      [] m.state = "a" ->
           IF c = SP
           THEN IF m.token # <<>> \/ m.quoted
                THEN [m EXCEPT !.parts = Append(m.parts, m.token),
                               !.token = <<>>, !.quoted = FALSE, !.state = "ws"]
                ELSE [m EXCEPT !.state = "ws"]
           ELSE IF c \in {SQ, DQ} THEN [m EXCEPT !.state = c]
           ELSE IF c = BS THEN [m EXCEPT !.escapedstate = "a", !.state = BS]
           ELSE [m EXCEPT !.token = Append(m.token, c)]

RECURSIVE ShlexFrom(_, _, _)
ShlexFrom(command, i, m) ==
    IF i > Len(command) THEN ShlexEnd(m)
    ELSE ShlexFrom(command, i + 1, ShlexChar(m, command[i]))

\* shlex.split(command): the tokens, or ok = FALSE for the ValueError
shlex_split(command) == ShlexFrom(command, 1, ShlexStart)

Git == <<"g", "i", "t">>

\* the command check with startswith in place of the comparison
NotGit_Prefix(cmd_parts) == cmd_parts = <<>> \/ ~StartsWith(cmd_parts[1], Git)

\* not cmd_parts or cmd_parts[0] != "git"
NotGit(cmd_parts) == cmd_parts = <<>> \/ cmd_parts[1] # Git

\* what subprocess.run does: the process exits with a return code, or run
\* raises before or after the process was started
ReturnCodes == {-1, 0, 1, 128}
RunOutcomes ==
    [raised : {FALSE}, started : {TRUE}, returncode : ReturnCodes]
        \cup [raised : {TRUE}, started : BOOLEAN, returncode : {0}]

GitEnd(command, success, returncode, subprocesses) ==
    /\ pc' = "returned"
    /\ call' = [op |-> "execute_git_command", command |-> command]
    /\ result' = [status |-> "complete",
                  value |-> [success |-> success, returncode |-> returncode]]
    /\ before' = fs
    /\ io' = [reads |-> 0, writes |-> 0, subprocesses |-> subprocesses]
    /\ UNCHANGED <<fs, web, stop_event, threads>>

\* execute_git_command(command)
execute_git_command(command, run) ==
    /\ pc = "idle"
    /\ LET parsed == shlex_split(command)
       IN  IF ~parsed.ok THEN GitEnd(command, FALSE, -1, 0)
           ELSE IF NotGit(parsed.parts) THEN GitEnd(command, FALSE, -1, 0)
           ELSE IF run.raised
                THEN GitEnd(command, FALSE, -1, IF run.started THEN 1 ELSE 0)
           ELSE GitEnd(command, run.returncode = 0, run.returncode, 1)

CommandChars == {"g", "i", "t", SP, SQ, DQ, BS}
Commands == Strings(CommandChars, MaxCmd)

ExecuteGitCommand ==
    /\ pc = "idle"
    /\ \E command \in Commands, run \in RunOutcomes :
           execute_git_command(command, run)

InitGit ==
    /\ fs = NoFiles
    /\ stop_event = "None"
    /\ InitCall

NextGit == ExecuteGitCommand \/ Return
SpecGit == InitGit /\ [][NextGit]_vars

\* ------------------------------------------ concurrent patch_file calls

\* Two callers run patch_file on the target file at the same time (the chat
\* UI serves conversations concurrently).  A call is two steps on the
\* filesystem, read_text and write_text, with nothing that keeps another call
\* from running between them.

Threads == {1, 2}

\* what a caller puts in its replacement, to tell the two edits apart
Mark == <<"x", "y">>

IdleThread ==
    [pc |-> "idle", patch |-> Patch(0, 0, <<>>), original_content |-> <<>>,
     status |-> "none", seen |-> 0, wrote |-> 0]

\* the number of write_text calls made so far
WritesSoFar == Cardinality({t \in DOMAIN threads : threads[t].wrote > 0})

\* the write step rereads the file instead of using what the call has read
\* (where the splice can be computed on the file as it is by then)
SpliceSource_Reread(t) ==
    IF PatchIndexError(ReadText(fs[Target]), threads[t].patch.start_line,
                       threads[t].patch.end_line, threads[t].patch.replacement)
    THEN threads[t].original_content
    ELSE ReadText(fs[Target])

\* original_content at the write: what the call's own read_text returned
SpliceSource(t) == threads[t].original_content

\* patch_file up to the write: exists, read_text and the splice
PatchFileRead(t, start_line, end_line, replacement) ==
    /\ threads[t].pc = "idle"
    /\ LET original_content == ReadText(fs[Target])
           started == [threads[t] EXCEPT
                          !.patch = Patch(start_line, end_line, replacement),
                          !.seen = WritesSoFar]
       IN  threads' = [threads EXCEPT ![t] =
               IF Target \notin DOMAIN fs
               THEN [started EXCEPT !.pc = "done", !.status = "FileNotFoundError"]
               ELSE IF PatchIndexError(original_content, start_line, end_line,
                                       replacement)
               THEN [started EXCEPT !.pc = "done", !.status = "IndexError",
                                    !.original_content = original_content]
               ELSE [started EXCEPT !.pc = "read",
                                    !.original_content = original_content]]
    /\ UNCHANGED <<fs, pc, call, result, before, io, web, stop_event>>

\* patch_file from the write on: write_text and the return
PatchFileWrite(t) ==
    /\ threads[t].pc = "read"
    /\ LET p == threads[t].patch
           modified_content ==
               PatchedContent(SpliceSource(t), p.start_line, p.end_line,
                              p.replacement)
       IN  fs' = [fs EXCEPT ![Target] = WriteText(modified_content)]
    /\ threads' = [threads EXCEPT ![t] =
           [@ EXCEPT !.pc = "done", !.status = "complete",
                     !.wrote = WritesSoFar + 1]]
    /\ UNCHANGED <<pc, call, result, before, io, web, stop_event>>

RaceContents == Strings(FileChars, MaxRaceLen)
RaceLines == 0 .. MaxRaceLine
RaceReplacements(t) == {<<>>, <<Mark[t]>>, <<Mark[t], LF>>}

RaceRead ==
    \E t \in Threads, s \in RaceLines, e \in RaceLines :
        \E r \in RaceReplacements(t) : PatchFileRead(t, s, e, r)

RaceWrite == \E t \in Threads : PatchFileWrite(t)

InitRace ==
    /\ fs \in {Target :> c : c \in RaceContents}
    /\ stop_event = "None"
    /\ pc = "idle"
    /\ call = NoCall
    /\ result = NoResult
    /\ before = fs
    /\ io = NoIO
    /\ web = NoWeb
    /\ threads = [t \in Threads |-> IdleThread]

NextRace == RaceRead \/ RaceWrite
SpecRace == InitRace /\ [][NextRace]_vars

\* --------------------------- apply_multiple_patches beside another writer

\* One apply_multiple_patches call on the target file, step by step: every
\* preview_patch of the validation loop reads the file, the splice reads it
\* again, the write comes last.  Another caller may write the file between
\* any two of the steps.

IdleBatch ==
    [pc |-> "idle", sorted |-> <<>>, i |-> 0,
     original_content |-> <<>>, status |-> "none"]

\* apply_multiple_patches up to the validation loop
BatchStart(slots) ==
    /\ threads[1].pc = "idle"
    /\ LET patches == GivenPatches(slots)
       IN  threads' = [threads EXCEPT ![1] =
               IF patches = <<>> THEN [@ EXCEPT !.pc = "done", !.status = "no-op"]
               ELSE IF ~Exists(Target)
                    THEN [@ EXCEPT !.pc = "done", !.status = "FileNotFoundError"]
               ELSE [@ EXCEPT !.pc = "validate",
                              !.sorted = sorted_patches(patches)]]
    /\ UNCHANGED <<fs, pc, call, result, before, io, web, stop_event>>

\* one turn of the validation loop: preview_patch reads the file and checks
\* the range of the next patch
BatchValidate ==
    /\ threads[1].pc = "validate"
    /\ LET k == threads[1].i + 1
           patch == threads[1].sorted[k]
           status == PreviewStatus(TargetPath, patch.start_line, patch.end_line)
       IN  threads' = [threads EXCEPT ![1] =
               IF status # "complete"
               THEN [@ EXCEPT !.pc = "done", !.status = status]
               ELSE [@ EXCEPT !.i = k,
                              !.pc = IF k = Len(threads[1].sorted)
                                     THEN "splice" ELSE "validate"]]
    /\ UNCHANGED <<fs, pc, call, result, before, io, web, stop_event>>

\* original_content = abs_path.read_text(...) and the splice loop
BatchSplice ==
    /\ threads[1].pc = "splice"
    /\ threads' = [threads EXCEPT ![1] =
           [@ EXCEPT !.pc = "write", !.original_content = ReadText(fs[Target])]]
    /\ UNCHANGED <<fs, pc, call, result, before, io, web, stop_event>>

\* abs_path.write_text(final_content, ...) and the return
BatchWrite ==
    /\ threads[1].pc = "write"
    /\ fs' = [fs EXCEPT ![Target] =
                 WriteText(FinalContent(threads[1].original_content,
                                        threads[1].sorted))]
    /\ threads' = [threads EXCEPT ![1] =
           [@ EXCEPT !.pc = "done", !.status = "complete"]]
    /\ UNCHANGED <<pc, call, result, before, io, web, stop_event>>

\* another caller writes the file while the call is between two steps
OtherWrite(content) ==
    /\ threads[1].pc \in {"validate", "splice", "write"}
    /\ fs[Target] # content
    /\ fs' = [fs EXCEPT ![Target] = content]
    /\ UNCHANGED <<pc, call, result, before, io, web, stop_event, threads>>

StepPatches ==
    {Patch(s, e, r) : s \in RaceLines, e \in RaceLines, r \in {<<>>, <<"x">>}}
StepSlots == [1..MaxPatches -> {{}} \cup {{p} : p \in StepPatches}]

StepContents == Strings({"a", LF}, MaxRaceLen)

BatchBegin == \E slots \in StepSlots : BatchStart(slots)
OtherWrites == \E content \in StepContents : OtherWrite(content)

InitSteps ==
    /\ fs \in {Target :> c : c \in StepContents}
    /\ stop_event = "None"
    /\ pc = "idle"
    /\ call = NoCall
    /\ result = NoResult
    /\ before = fs
    /\ io = NoIO
    /\ web = NoWeb
    /\ threads = <<IdleBatch>>

NextSteps == BatchBegin \/ BatchValidate \/ BatchSplice \/ BatchWrite \/ OtherWrites
SpecSteps == InitSteps /\ [][NextSteps]_vars

\* ------------------------------------------- previews of longer files

\* Files long enough for the three-line context windows of preview_patch to
\* be cut off: line i is the i-th letter, the last line with or without its
\* terminator.

Letters == <<"a", "b", "c", "d", "e", "f", "g", "h">>

RECURSIVE LetterLines(_)
LetterLines(n) == IF n = 0 THEN <<>> ELSE LetterLines(n - 1) \o <<Letters[n], LF>>

DiffContents ==
    {LetterLines(n) : n \in 0..MaxDiffLines}
        \cup {SubSeq(LetterLines(n), 1, 2 * n - 1) : n \in 1..MaxDiffLines}

DiffLineNumbers == 0 .. (MaxDiffLines + 2)
DiffReplacements == {<<>>, <<"x">>, <<"x", LF, "y", LF>>}

PreviewDiff ==
    /\ pc = "idle"
    /\ \E s \in DiffLineNumbers, e \in DiffLineNumbers, r \in DiffReplacements :
           preview_patch(TargetPath, s, e, r)

InitDiff ==
    /\ fs \in {Target :> c : c \in DiffContents}
    /\ stop_event = "None"
    /\ InitCall

NextDiff == PreviewDiff
SpecDiff == InitDiff /\ [][NextDiff]_vars

\* ------------------------------------------------------- _parse_page_range

Digits == <<"0", "1", "2", "3", "4", "5", "6", "7", "8", "9">>
IsDigit(c) == \E d \in 1..Len(Digits) : Digits[d] = c
DigitValue(c) == (CHOOSE d \in 1..Len(Digits) : Digits[d] = c) - 1

\* str.split(sep) and str.split(sep, 1) for a one-character separator
RECURSIVE SplitOn(_, _, _)
SplitOn(s, sep, maxsplit) ==
    LET at == {k \in 1..Len(s) : s[k] = sep}
    IN  IF at = {} \/ maxsplit = 0 THEN <<s>>
        ELSE LET k == CHOOSE k \in at : \A j \in at : k <= j
             IN  <<SubSeq(s, 1, k - 1)>>
                     \o SplitOn(Drop(s, k), sep, maxsplit - 1)

\* str.strip()
RECURSIVE Strip(_)
Strip(s) ==
    IF s # <<>> /\ Head(s) = SP THEN Strip(Tail(s))
    ELSE IF s # <<>> /\ Last(s) = SP THEN Strip(SubSeq(s, 1, Len(s) - 1))
    ELSE s

\* the digits of a stripped numeral, after its sign if it has one
Unsigned(t) == IF t # <<>> /\ Head(t) \in {"-", "+"} THEN Tail(t) ELSE t

\* int(s) raises ValueError
IntError(s) ==
    LET t == Unsigned(Strip(s))
    IN  t = <<>> \/ \E k \in 1..Len(t) : ~IsDigit(t[k])

\* int(s) for an optional sign and digits, spaces around them allowed
RECURSIVE DecimalValue(_)
DecimalValue(t) ==
    IF t = <<>> THEN 0
    ELSE 10 * DecimalValue(SubSeq(t, 1, Len(t) - 1)) + DigitValue(Last(t))
int(s) ==
    LET t == Strip(s)
    IN  IF t # <<>> /\ Head(t) = "-" THEN 0 - DecimalValue(Unsigned(t))
        ELSE DecimalValue(Unsigned(t))

Min(a, b) == IF a < b THEN a ELSE b
Max(a, b) == IF a > b THEN a ELSE b

\* "-" in part
IsRangePart(part) == \E k \in 1..Len(part) : part[k] = "-"

\* parts = [part.strip() for part in page_range.split(",")]
Parts(page_range) ==
    LET split == SplitOn(page_range, ",", -1)
    IN  [k \in 1..Len(split) |-> Strip(split[k])]

\* the part raises ValueError
PartError(part) ==
    IF IsRangePart(part)
    THEN LET ends == SplitOn(part, "-", 1)
         IN  IntError(ends[1]) \/ IntError(ends[2])
    ELSE IntError(part)

\* max(0, min(page, total_pages - 1))
ClampPage(page, total_pages) == Max(0, Min(page, total_pages - 1))

\* the 0-indexed pages the part adds to the set
PartPages(part, total_pages) ==
    IF IsRangePart(part)
    THEN LET ends == SplitOn(part, "-", 1)
             start_page == ClampPage(int(ends[1]) - 1, total_pages)
             end_page == ClampPage(int(ends[2]) - 1, total_pages)
         IN  IF start_page <= end_page THEN start_page .. end_page ELSE {}
    ELSE LET page_num == int(part) - 1
         IN  IF 0 <= page_num /\ page_num < total_pages THEN {page_num} ELSE {}

\* _parse_page_range(page_range, total_pages)
parse_page_range(page_range, total_pages) ==
    /\ pc = "idle"
    /\ pc' = "returned"
    /\ call' = [op |-> "_parse_page_range", page_range |-> page_range,
                total_pages |-> total_pages]
    /\ LET parts == Parts(page_range)
       IN  result' =
               IF \E k \in 1..Len(parts) : PartError(parts[k])
               THEN [status |-> "ValueError", value |-> <<>>]
               ELSE [status |-> "complete",
                     value |-> Ascending(UNION {PartPages(parts[k], total_pages) :
                                                   k \in 1..Len(parts)})]
    /\ before' = fs
    /\ io' = NoIO
    /\ UNCHANGED <<fs, web, stop_event, threads>>

RangeChars == {"0", "1", "2", "-", ",", SP}
PageRanges == Strings(RangeChars, MaxRange) \ {<<>>}
TotalPages == 0 .. MaxTotalPages

ParsePageRange ==
    /\ pc = "idle"
    /\ \E page_range \in PageRanges, total_pages \in TotalPages :
           parse_page_range(page_range, total_pages)

InitPages ==
    /\ fs = NoFiles
    /\ stop_event = "None"
    /\ InitCall

NextPages == ParsePageRange \/ Return
SpecPages == InitPages /\ [][NextPages]_vars

\* ------------------------------------------------- vocabulary of the claims

Returned(op) == pc = "returned" /\ call.op = op

\* the last call was made on the target file and found it on disk
OnTarget(op) == Returned(op) /\ call.path = TargetPath /\ Target \in DOMAIN before

\* the bytes of the target file before and after the last call
BytesBefore == before[Target]
BytesAfter == fs[Target]

\* the text and the line count the last call read
TextBefore == ReadText(BytesBefore)
LinesBefore == Splitlines(TextBefore)
N == Len(LinesBefore)

\* the one patch of a patch_file or preview_patch call
ThePatch == CHOOSE p \in call.slots[1] : TRUE

\* the complete patches of an apply_multiple_patches call
TheBatch == GivenPatches(call.slots)

\* a range the patch engine is to refuse on an n-line file
InvalidRange(p, n) ==
    \/ p.start_line < 1
    \/ p.start_line > p.end_line
    \/ ~IsAppend(p.start_line, p.end_line, n) /\ p.end_line > n

\* two ranges share a line number
Overlap(p, q) == p.start_line <= q.end_line /\ q.start_line <= p.end_line

\* a batch of valid patches no two of which overlap
Disjoint(batch, n) ==
    /\ \A i \in 1..Len(batch) : ~InvalidRange(batch[i], n)
    /\ \A i, j \in 1..Len(batch) : i # j => ~Overlap(batch[i], batch[j])

\* segment-wise containment in the base directory
Inside(p) == IsPrefix(BASE_DIR, p)

\* the tools of claim C2
GuardedTools ==
    {"write_file", "patch_file", "preview_patch", "patch_by_pattern",
     "show_line_numbers", "list_dir"}

\* "\r\n" if the bytes contain "\r\n" anywhere, else "\n"
Dominant(bytes) == IF Contains(bytes, <<CR, LF>>) THEN <<CR, LF>> ELSE <<LF>>

\* the terminator of a line of splitlines(keepends=True), <<>> if it has none
Terminator(line) ==
    IF EndsWithCRLF(line) THEN <<CR, LF>>
    ELSE IF EndsWithNewline(line) THEN <<Last(line)>>
    ELSE <<>>

\* the line terminators that occur in the bytes
Terminators(bytes) ==
    {Terminator(SplitlinesKeepends(bytes)[i]) :
        i \in 1..Len(SplitlinesKeepends(bytes))} \ {<<>>}

\* the original lines with every range replaced at once by its replacement's
\* lines, position by position in the original numbering (position n + 1 is
\* where an append goes)
RECURSIVE Simultaneous(_, _, _)
Simultaneous(lines, batch, i) ==
    IF i > Len(lines) + 1 THEN <<>>
    ELSE LET starting == {k \in 1..Len(batch) : batch[k].start_line = i}
             covered == \E k \in 1..Len(batch) :
                            batch[k].start_line <= i /\ i <= batch[k].end_line
         IN  (IF starting # {}
              THEN Splitlines(batch[CHOOSE k \in starting : TRUE].replacement)
              ELSE IF i <= Len(lines) /\ ~covered THEN <<lines[i]>>
              ELSE <<>>)
             \o Simultaneous(lines, batch, i + 1)

\* the slots of the last call in another order
Permuted(f) == [i \in 1..Len(call.slots) |-> call.slots[f[i]]]

\* ------------------------------------------------------------------ claims

\* C1: every path _resolve_path returns is the base directory or a descendant
\* of it, segment by segment, and every other path (a sibling directory whose
\* name starts with the base directory's name too) raises PermissionError.
C1_ResolveContained ==
    pc = "returned" /\ ~(call.op = "write_file" /\ result.status = "ValueError")
        => (result.status # "PermissionError" <=> Inside(AbsPath(call.path)))

\* C2: for every user path whose canonical form lies outside the base
\* directory, the guarded file tools raise PermissionError and neither read
\* nor write the filesystem.
C2_EscapeRaisesUntouched ==
    pc = "returned" /\ call.op \in GuardedTools /\ ~Inside(AbsPath(call.path))
        => result.status = "PermissionError" /\ io = NoIO /\ fs = before

\* C3: patch_file with start_line < 1, start_line > end_line or a non-append
\* end_line > N fails with an error and leaves the file's bytes unchanged.
C3_PatchFileRejectsInvalidRange ==
    OnTarget("patch_file") /\ InvalidRange(ThePatch, N)
        => result.status # "complete" /\ fs = before

\* C4: if any patch of an apply_multiple_patches batch fails range validation
\* against the file's current line count, the call raises ValueError and the
\* file's bytes are unchanged: no other patch of the batch is applied.
C4_BatchAbortsWhole ==
    OnTarget("apply_multiple_patches")
    /\ (\E i \in 1..Len(TheBatch) : InvalidRange(TheBatch[i], N))
        => result.status = "ValueError" /\ fs = before

\* C4 witness: a batch of one valid patch that would change the file and one
\* invalid patch was refused.
C4_Witness ==
    /\ OnTarget("apply_multiple_patches")
    /\ result.status = "ValueError"
    /\ fs = before
    /\ \E i, j \in 1..Len(TheBatch) :
        /\ InvalidRange(TheBatch[i], N)
        /\ ~InvalidRange(TheBatch[j], N)
        /\ Join(Simultaneous(LinesBefore, <<TheBatch[j]>>, 1), <<LF>>) # TextBefore

\* C5: for a batch of valid, pairwise non-overlapping patches every range
\* refers to the pre-edit numbering: the line sequence of the file after the
\* call is the original line sequence with each range replaced at once by its
\* replacement's lines, all other lines kept in their order.
C5_PreEditNumbering ==
    OnTarget("apply_multiple_patches") /\ TheBatch # <<>> /\ Disjoint(TheBatch, N)
        => /\ result.status = "complete"
           /\ Splitlines(ReadText(BytesAfter)) = Simultaneous(LinesBefore, TheBatch, 1)

\* C6: for valid, pairwise non-overlapping patches the content written is the
\* same in whatever order the patches fill the slots of the call.
C6_OrderIndependent ==
    OnTarget("apply_multiple_patches") /\ TheBatch # <<>> /\ Disjoint(TheBatch, N)
        => \A f \in Permutations(1..Len(call.slots)) :
               BytesAfter =
                   WriteText(FinalContent(TextBefore,
                                 sorted_patches(GivenPatches(Permuted(f)))))

\* C6 witness: two disjoint patches were applied that the call was given in
\* ascending line order, the earlier one changing the number of lines.
C6_Witness ==
    /\ OnTarget("apply_multiple_patches")
    /\ result.status = "complete"
    /\ Len(TheBatch) = 2
    /\ Disjoint(TheBatch, N)
    /\ TheBatch[1].end_line < TheBatch[2].start_line
    /\ Splitlines(TheBatch[1].replacement) = <<>>
    /\ BytesAfter # BytesBefore

\* C7: a batch with two patches whose line ranges overlap is rejected with an
\* error and the file is left unchanged.
C7_OverlapRejected ==
    OnTarget("apply_multiple_patches")
    /\ (\E i, j \in 1..Len(TheBatch) : i # j /\ Overlap(TheBatch[i], TheBatch[j]))
        => result.status \notin {"complete", "no-op"} /\ fs = before

\* C8: patch_file with 1 <= s <= e <= N and a replacement of k lines leaves a
\* file of exactly N - (e - s + 1) + k lines.
C8_LineCount ==
    OnTarget("patch_file")
    /\ 1 <= ThePatch.start_line /\ ThePatch.start_line <= ThePatch.end_line
    /\ ThePatch.end_line <= N
        => /\ result.status = "complete"
           /\ Len(Splitlines(BytesAfter)) =
                  N - (ThePatch.end_line - ThePatch.start_line + 1)
                    + Len(Splitlines(ThePatch.replacement))

\* C9: after a successful patch_file every line terminator of the output file
\* is the dominant style of the input file.
C9_PatchFileDominantStyle ==
    OnTarget("patch_file") /\ result.status = "complete"
        => Terminators(BytesAfter) \subseteq {Dominant(BytesBefore)}

\* C10: after a successful apply_multiple_patches every line terminator of the
\* output file is the dominant style of the input file.
C10_BatchDominantStyle ==
    OnTarget("apply_multiple_patches") /\ result.status = "complete"
        => Terminators(BytesAfter) \subseteq {Dominant(BytesBefore)}

\* C11: patch_file with start_line = end_line = N + 1 and an empty replacement
\* reports status complete and leaves the file's bytes unchanged, whether or
\* not the last line has a terminator.
C11_EmptyAppendNoOp ==
    OnTarget("patch_file")
    /\ ThePatch = Patch(N + 1, N + 1, <<>>)
        => result.status = "complete" /\ BytesAfter = BytesBefore

\* C12: preview_patch never writes: whether it returns a preview or raises,
\* every file (the target and every other) has the bytes it had before the
\* call, and no file appears or disappears.
C12_PreviewNeverWrites ==
    Returned("preview_patch") => fs = before /\ io.writes = 0

\* C12 witness: a preview was returned for a patch that patch_file would apply
\* with a change to the target file's bytes.
C12_Witness ==
    /\ OnTarget("preview_patch")
    /\ result.status = "complete"
    /\ fs = before
    /\ WriteText(PatchedContent(TextBefore, ThePatch.start_line, ThePatch.end_line,
                                ThePatch.replacement)) # BytesBefore
    /\ Sibling \in DOMAIN fs

\* the bytes patch_file writes when given the arguments of the last call, and
\* the lines it takes out of the file
PatchFileWrites ==
    WriteText(PatchedContent(TextBefore, ThePatch.start_line, ThePatch.end_line,
                             ThePatch.replacement))
PatchFileRemoves ==
    LET removed == Slice(KeptLines(TextBefore), ThePatch.start_line - 1,
                         ThePatch.end_line)
    IN  [k \in 1..Len(removed) |-> StripTerminator(removed[k])]

\* C13: whenever preview_patch accepts (start_line, end_line, replacement), its
\* line_count_after is the line count of the file patch_file leaves with the
\* same arguments, and its original_lines are the lines patch_file removes.
C13_PreviewPredictsPatch ==
    OnTarget("preview_patch") /\ result.status = "complete"
        => /\ ~PatchIndexError(TextBefore, ThePatch.start_line, ThePatch.end_line,
                               ThePatch.replacement)
           /\ result.value.line_count_after = Len(Splitlines(ReadText(PatchFileWrites)))
           /\ result.value.original_lines = PatchFileRemoves

\* the tools that patch or preview an existing file
PatchTools == {"patch_file", "preview_patch", "patch_by_pattern", "apply_multiple_patches"}

\* the path of the last call passed the path guard and named neither a file
\* nor a directory when the call was made
MissingBefore ==
    /\ resolve_path_ok(call.path)
    /\ AbsPath(call.path) \notin DOMAIN before
    /\ \A q \in DOMAIN before : ~IsPrefix(AbsPath(call.path), q)
    /\ ~IsPrefix(AbsPath(call.path), BASE_DIR)

\* C14: when the target file does not exist, patch_file, preview_patch,
\* patch_by_pattern and apply_multiple_patches (with a complete patch) raise
\* FileNotFoundError and the file still does not exist afterwards.
C14_MissingFileNotFound ==
    pc = "returned" /\ call.op \in PatchTools /\ MissingBefore
        => /\ result.status = "FileNotFoundError"
           /\ AbsPath(call.path) \notin DOMAIN fs
           /\ fs = before

\* C14 witness: a batch with a complete patch was refused for a missing file
\* inside the working directory.
C14_Witness ==
    /\ Returned("apply_multiple_patches")
    /\ GivenPatches(call.slots) # <<>>
    /\ MissingBefore
    /\ Inside(AbsPath(call.path))
    /\ result.status = "FileNotFoundError"
    /\ AbsPath(call.path) \notin DOMAIN fs

\* the matches of the last call's pattern in the text the call read, left to
\* right, and their number
MatchesBefore == FindIter(ThePatch.pattern, TextBefore, 0)
M == Len(MatchesBefore)

\* C15: patch_by_pattern returns an error and leaves the file's bytes unchanged
\* whenever the occurrence is not in 1..M: pattern not found when M = 0,
\* invalid occurrence when M > 0 and the occurrence is below 1 or above M.
C15_OccurrenceOutOfRange ==
    OnTarget("patch_by_pattern") /\ ThePatch.occurrence \notin 1..M
        => /\ result.status = "error"
           /\ result.value.message =
                  IF M = 0 THEN "not found" ELSE "invalid occurrence"
           /\ fs = before

\* C15 witness: the pattern matched, the occurrence was below 1, and the call
\* was refused although the replacement differs from the text of every match.
C15_Witness ==
    /\ OnTarget("patch_by_pattern")
    /\ M >= 2
    /\ ThePatch.occurrence < 1
    /\ ThePatch.pattern # ThePatch.replacement
    /\ result.status = "error"
    /\ result.value.message = "invalid occurrence"
    /\ fs = before

\* the occurrence-th match of the last call's pattern in the text it read
TheMatch == MatchesBefore[ThePatch.occurrence]

\* C16: for 1 <= occurrence <= M patch_by_pattern replaces only the span of
\* the occurrence-th match: the bytes of the file after the call are the bytes
\* before that match, then the replacement, then the bytes after that match,
\* every byte outside the span unchanged.
C16_OnlyTheSpanReplaced ==
    OnTarget("patch_by_pattern") /\ ThePatch.occurrence \in 1..M
        => /\ result.status = "complete"
           /\ \E i \in 0..Len(BytesBefore) : \E j \in i..Len(BytesBefore) :
                  /\ ReadText(SubSeq(BytesBefore, 1, i))
                         = SubSeq(TextBefore, 1, TheMatch.start)
                  /\ ReadText(SubSeq(BytesBefore, i + 1, j))
                         = SubSeq(TextBefore, TheMatch.start + 1, TheMatch.end)
                  /\ BytesAfter = SubSeq(BytesBefore, 1, i)
                                      \o ThePatch.replacement
                                      \o Drop(BytesBefore, j)

\* the empty string as a path argument
TheEmptyPath == [abs |-> FALSE, segs |-> <<>>]

\* C17: write_file with an empty path raises ValueError (not an error of the
\* path guard or of the filesystem) and creates or modifies no file or
\* directory.
C17_EmptyPathRejected ==
    Returned("write_file") /\ call.path = TheEmptyPath
        => result.status = "ValueError" /\ fs = before /\ io = NoIO

\* C17 witness: write_file was given the empty path and content to write, and
\* raised ValueError with the files as they were.
C17_Witness ==
    /\ Returned("write_file")
    /\ call.path = TheEmptyPath
    /\ call.text # <<>>
    /\ result.status = "ValueError"
    /\ fs = before

\* a web_search call is past its argument checks and has not ended
WebRunning == pc \in {"for", "sleep", "get"}

\* the responses of the web_search call in progress or just ended
AllWere429(responses) == \A k \in 1..Len(responses) : responses[k] = "429"

\* at most 1 + max_retries requests, each after the first one following a 429
WebRequestsBounded ==
    call.op = "web_search" /\ pc # "idle"
        => /\ Len(web.responses) <= 1 + call.max_retries \/ web.responses = <<>>
           /\ AllWere429(SubSeq(web.responses, 1, Len(web.responses) - 1))

\* how the call ends, by the responses it got
WebOutcome ==
    Returned("web_search") /\ web.responses # <<>>
        => LET last == web.responses[Len(web.responses)]
           IN  /\ last = "ok" => result.status = "complete"
               /\ last = "error" => result.status = "HTTPError"
               /\ last = "429" /\ Len(web.responses) = 1 + call.max_retries
                      => result.status = "MaxRetriesReached"
               /\ result.status = "complete" => last = "ok"
               /\ result.status = "MaxRetriesReached"
                      => last = "429" /\ Len(web.responses) = 1 + call.max_retries

\* a call that passed its argument checks, was not aborted by the stop event
\* and got an HTTP response to every request ends in one of the three ways
WebEndings ==
    /\ Returned("web_search")
    /\ call.query # <<>> /\ call.api_key
    /\ stop_event # "set"
    /\ \A k \in 1..Len(web.responses) : web.responses[k] # "exception"
    => result.status \in {"complete", "HTTPError", "MaxRetriesReached"}

\* C18: web_search issues at most 1 + max_retries requests, a further one only
\* after an HTTP 429; it returns on the first success, raises on the first
\* other HTTP error, raises 'Max retries reached' once all 1 + max_retries
\* responses were 429; and every call ends.
C18_BoundedRetries ==
    /\ [](WebRequestsBounded /\ WebOutcome /\ WebEndings)
    /\ (WebRunning ~> pc = "returned")

\* C18 witness: a call succeeded on its last permitted attempt, after two 429.
C18_Witness ==
    /\ Returned("web_search")
    /\ result.status = "complete"
    /\ call.max_retries = 2
    /\ web.responses = <<"429", "429", "ok">>

\* C19: for every content length and every page number >= 1, the string that
\* fetch_html returns is at most 10,000 characters long.
C19_AtMostTenThousand ==
    Returned("fetch_html") /\ call.page >= 1 => result.value <= 10000

\* the command of the last execute_git_command call parses and its first
\* token is exactly git
FirstTokenIsGit ==
    LET parsed == shlex_split(call.command)
    IN  parsed.ok /\ parsed.parts # <<>> /\ parsed.parts[1] = <<"g", "i", "t">>

\* C20: execute_git_command starts a subprocess only if the first token of the
\* shlex-parsed command is exactly git; for an unparsable, empty or non-git
\* command it returns success False with returncode -1; and whenever it runs
\* the command, success is True exactly when the returncode is 0.
C20_GitOnly ==
    Returned("execute_git_command")
        => /\ io.subprocesses > 0 => FirstTokenIsGit
           /\ ~FirstTokenIsGit
                 => ~result.value.success /\ result.value.returncode = -1
           /\ io.subprocesses > 0
                 => (result.value.success <=> result.value.returncode = 0)

\* C20 witness: a quoted git command was run and failed with return code 128,
\* after calls in which a command was refused.
C20_Witness ==
    /\ Returned("execute_git_command")
    /\ call.command = <<SQ, "g", "i", "t", SQ>>
    /\ io.subprocesses = 1
    /\ ~result.value.success
    /\ result.value.returncode = 128

\* the last patch_file call had a valid range that ends at the file's last
\* line, or was an append
EndsAtLastLine ==
    \/ 1 <= ThePatch.start_line /\ ThePatch.start_line <= ThePatch.end_line
          /\ ThePatch.end_line = N
    \/ IsAppend(ThePatch.start_line, ThePatch.end_line, N)

\* C21: when patch_file replaces a range that ends at the last line, or
\* appends, with a non-empty replacement, the resulting file ends with a line
\* terminator if and only if the replacement text ended with one.
C21_LastTerminatorMirrors ==
    OnTarget("patch_file") /\ result.status = "complete"
    /\ EndsAtLastLine /\ ThePatch.replacement # <<>>
        => (EndsWithNewline(BytesAfter) <=> EndsWithNewline(ThePatch.replacement))

\* the last patch_file call appended a non-empty replacement to a non-empty
\* file whose last line had no terminator
AppendAfterOpenLine ==
    /\ OnTarget("patch_file") /\ result.status = "complete"
    /\ IsAppend(ThePatch.start_line, ThePatch.end_line, N)
    /\ ThePatch.replacement # <<>>
    /\ BytesBefore # <<>> /\ ~EndsWithNewline(BytesBefore)

\* the lines of the file after the last call, with and without terminators
KeptLinesAfter == SplitlinesKeepends(BytesAfter)
LinesAfter == Splitlines(BytesAfter)

\* C22: when patch_file appends a non-empty replacement to a non-empty file
\* whose last line has no terminator, that line is first given a terminator in
\* the file's dominant style: the first N lines of the result have the text of
\* the original N lines and the appended content starts on line N + 1.
C22_AppendClosesLastLine ==
    AppendAfterOpenLine
        => /\ Len(LinesAfter) > N
           /\ SubSeq(LinesAfter, 1, N) = Splitlines(BytesBefore)
           /\ Terminator(KeptLinesAfter[N]) = Dominant(BytesBefore)
           /\ LinesAfter[N + 1] = Splitlines(ThePatch.replacement)[1]

\* C23: each patch_file, preview_patch, patch_by_pattern and
\* apply_multiple_patches call on an existing file reads the file's content
\* exactly once and writes it at most once, never for preview_patch.
C23_OneReadOneWrite ==
    /\ pc = "returned" /\ call.op \in PatchTools
    /\ call.path = TargetPath /\ Target \in DOMAIN before
    /\ result.status # "no-op"
    => /\ io.reads = 1
       /\ io.writes <= 1
       /\ call.op = "preview_patch" => io.writes = 0

\* both concurrent calls have ended
BothDone == threads # NoThreads /\ \A t \in Threads : threads[t].pc = "done"

\* the range of a concurrent call was valid for the content the call read
RaceValid(t) ==
    ~InvalidRange(threads[t].patch, Len(Splitlines(threads[t].original_content)))

\* the call whose write came last
LastWriter == CHOOSE t \in Threads : threads[t].wrote = Cardinality(Threads)

\* the bytes a concurrent call computes from a content with its own patch
ComputedFrom(t, content) ==
    WriteText(PatchedContent(content, threads[t].patch.start_line,
                             threads[t].patch.end_line,
                             threads[t].patch.replacement))

\* C24: when two patch_file calls run concurrently on one file, both report
\* status complete and the final content is the content computed by the call
\* whose write came last, from that call's own read snapshot; after read,
\* read, write, write it is what the last writer alone makes of the original
\* file, without the edit of the earlier writer.
C24_LastWriteWins ==
    BothDone /\ (\A t \in Threads : RaceValid(t))
    => /\ \A t \in Threads : threads[t].status = "complete"
       /\ fs[Target] = ComputedFrom(LastWriter, threads[LastWriter].original_content)
       /\ (\A t \in Threads : threads[t].seen = 0)
             => fs[Target] = ComputedFrom(LastWriter, ReadText(before[Target]))

\* C24 witness: after read, read, write, write the mark of the earlier writer
\* is not in the file, where it would be had the calls run one after the other.
C24_Witness ==
    /\ BothDone
    /\ \A t \in Threads : RaceValid(t) /\ threads[t].seen = 0
    /\ LastWriter = 2
    /\ threads[1].patch.replacement # <<>>
    /\ ~Contains(fs[Target], <<Mark[1]>>)
    /\ Contains(ComputedFrom(2, ReadText(ComputedFrom(1, ReadText(before[Target])))),
                <<Mark[1]>>)

\* the step-by-step apply_multiple_patches call has read the content it
\* splices into
HasSpliced == threads # NoThreads /\ threads[1].pc \in {"write", "done"}
                 /\ threads[1].status \in {"none", "complete"}

\* C25: in apply_multiple_patches, also when another writer changes the file
\* between the call's steps, every patch is spliced into content against
\* which its range is valid: each patch that is not an append to the content
\* read for splicing has end_line <= the line count of that content.
C25_SplicedAsValidated ==
    HasSpliced
    => LET n == Len(Splitlines(threads[1].original_content))
       IN  \A k \in 1..Len(threads[1].sorted) :
               LET p == threads[1].sorted[k]
               IN  ~IsAppend(p.start_line, p.end_line, n) => p.end_line <= n

\* the last patch_file call completed with a valid range that is no append
ValidReplace ==
    /\ OnTarget("patch_file") /\ result.status = "complete"
    /\ 1 <= ThePatch.start_line /\ ThePatch.start_line <= ThePatch.end_line
    /\ ThePatch.end_line <= N

\* the lines of the file before the last call, with their terminators
KeptLinesBefore == SplitlinesKeepends(BytesBefore)

\* C26: a valid non-append patch_file call with range [s, e] on an N-line
\* file leaves original lines 1..s-1 and e+1..N byte-identical (text and
\* terminator) and in order, as the first s-1 and the last N-e lines of the
\* result.
C26_FramePreserved ==
    ValidReplace
    => LET s == ThePatch.start_line
           e == ThePatch.end_line
           after == Len(KeptLinesAfter)
       IN  /\ after >= (s - 1) + (N - e)
           /\ SubSeq(KeptLinesAfter, 1, s - 1) = SubSeq(KeptLinesBefore, 1, s - 1)
           /\ SubSeq(KeptLinesAfter, after - (N - e) + 1, after)
                  = SubSeq(KeptLinesBefore, e + 1, N)

\* lines from..to of a file, as entries of a diff
Listed(tag, from, to, lines) ==
    [k \in 1..(to - from + 1) |-> DiffLine(tag, from + k - 1, lines[from + k - 1])]

\* the last preview_patch call was given a range that passes validation
PreviewAccepted == OnTarget("preview_patch") /\ ~InvalidRange(ThePatch, N)

\* the diff of claim C27 for the last preview_patch call
ExpectedDiff ==
    LET s == ThePatch.start_line
        e == ThePatch.end_line
        added == Splitlines(ThePatch.replacement)
        append == IsAppend(s, e, N)
        first == IF s - 3 > 1 THEN s - 3 ELSE 1
        last == IF e + 3 < N THEN e + 3 ELSE N
    IN  Listed("before", first, s - 1, LinesBefore)
        \o (IF append THEN <<>> ELSE Listed("remove", s, e, LinesBefore))
        \o [k \in 1..Len(added) |-> DiffLine("add", s + k - 1, added[k])]
        \o (IF append THEN <<>> ELSE Listed("after", e + 1, last, LinesBefore))

\* C27: for every input that passes validation, the diff of preview_patch
\* lists as context before the original lines max(1, s-3)..s-1, as removed
\* the original lines s..e with their numbers (none for an append), as added
\* the replacement lines numbered from s, as context after the original lines
\* e+1..min(N, e+3) (none for an append); no line outside 1..N is indexed.
C27_DiffWindows ==
    PreviewAccepted
    => /\ result.status = "complete"
       /\ result.value.diff = ExpectedDiff
       /\ \A k \in 1..Len(result.value.diff) :
              result.value.diff[k].tag # "add"
                  => result.value.diff[k].num \in 1..N

\* C27 witness: a preview of line 5 of a six-line file: the context before is
\* cut to the three lines 2..4, the context after is the one line left.
C27_Witness ==
    /\ PreviewAccepted /\ result.status = "complete"
    /\ N >= 6 /\ ThePatch.start_line = 5 /\ ThePatch.end_line = 5
    /\ ThePatch.replacement # <<>>
    /\ Len(result.value.diff) = 6
    /\ result.value.diff[1] = DiffLine("before", 2, <<"b">>)

\* C28: after a successful patch_file call with a valid range or a valid
\* append on an N-line file, the summary agrees with the change made:
\* lines_removed is the number of original lines deleted (0 for an append)
\* and current_line_count = N - lines_removed + lines_added.
C28_SummaryConsistent ==
    OnTarget("patch_file") /\ result.status = "complete"
    /\ ~InvalidRange(ThePatch, N)
    => /\ result.value.lines_removed =
              (IF IsAppend(ThePatch.start_line, ThePatch.end_line, N) THEN 0
               ELSE ThePatch.end_line - ThePatch.start_line + 1)
       /\ result.value.current_line_count =
              N - result.value.lines_removed + result.value.lines_added

\* the stop event is set when an attempt of web_search begins, or at a poll of
\* the back-off sleep
StopAtAttempt ==
    pc = "for" /\ web.i < 1 + call.max_retries /\ stop_event = "set"
StopAtPoll == pc = "sleep" /\ web.sleep > 0 /\ stop_event = "set"

\* the web_search call takes a step
WebMoves == pc' # pc \/ web' # web

\* C29: in web_search, if the stop event is set when an attempt begins, or is
\* seen set at a poll of the back-off sleep before a retry, the call raises
\* 'Aborted due to stop event' (RuntimeError) without issuing that attempt's
\* request or any later one.
C29_StopAborts ==
    [][(StopAtAttempt \/ StopAtPoll) /\ WebMoves
           => /\ pc' = "returned"
              /\ result'.status = "RuntimeError"
              /\ web'.responses = web.responses]_vars

\* C29 witness: the call was aborted before its second retry, two requests
\* made and a third allowed.
C29_Witness ==
    /\ Returned("web_search")
    /\ result.status = "RuntimeError"
    /\ call.max_retries = 2
    /\ web.responses = <<"429", "429">>

\* the parts of the page-range string of the last _parse_page_range call
TheParts == Parts(call.page_range)

\* the part names only pages after the last one: a single page number beyond
\* it, a range whose two ends are beyond it, or any range of an empty document
BeyondLastPage(part, total_pages) ==
    IF IsRangePart(part)
    THEN LET ends == SplitOn(part, "-", 1)
         IN  \/ total_pages = 0
             \/ int(ends[1]) > total_pages /\ int(ends[2]) > total_pages
    ELSE int(part) > total_pages

\* the indices that come from the parts that name a page of the document
IndicesInDocument ==
    UNION {PartPages(TheParts[k], call.total_pages) :
               k \in {j \in 1..Len(TheParts) :
                          ~BeyondLastPage(TheParts[j], call.total_pages)}}

\* C30: for every page-range string that parses and every total_pages >= 0,
\* _parse_page_range returns a strictly ascending list of indices i with
\* 0 <= i < total_pages; a single page number or a range lying entirely
\* beyond the last page (or any range when total_pages = 0) contributes no
\* index.
C30_IndicesInDocument ==
    Returned("_parse_page_range") /\ result.status = "complete"
    => /\ \A k \in 1..(Len(result.value) - 1) :
              result.value[k] < result.value[k + 1]
       /\ \A k \in 1..Len(result.value) :
              0 <= result.value[k] /\ result.value[k] < call.total_pages
       /\ {result.value[k] : k \in 1..Len(result.value)} = IndicesInDocument

====
